---- MODULE Spec2Model ----
(***************************************************************************)
(* Model of scripts/check_image_404s.py: the probe check_one (HEAD, then   *)
(* a conditional GET, retry with linear backoff) and the dispatcher in     *)
(* main (ThreadPoolExecutor, as_completed, results keyed by row index),    *)
(* followed by the classification and the report of the broken rows.       *)
(*                                                                         *)
(* Row indices are 0-based as in the source.  A future is named by the     *)
(* order of its creation (1, 2, ...).  Durations are in milliseconds.  A   *)
(* character is its Unicode code point.                                    *)
(***************************************************************************)
EXTENDS Integers, Sequences, FiniteSets, TLC

\* Bounds of the model: the rows of the table in a run of the dispatcher, the
\* rows in a run that follows one probe through every answer of the network,
\* and the worker threads.
MaxUrls == 2
MaxProbeUrls == 1
MaxWorkers == 2
\* The status codes the classification is tried on.
MinStatus == 100
MaxStatus == 599
\* The rows of the table the collation is tried on.
MaxCollateRows == 3

\* Program constants.
RETRIES == 2
BACKOFF_MS == 500
\* line 39: the default of --column
DEFAULT_COLUMN == "IMAGE_URLS"
\* line 70: the column the statuses are assigned to
STATUS_COLUMN == "IMAGE_STATUS"
\* The names the URL column has in the runs of the model.
ColumnNames == {DEFAULT_COLUMN, STATUS_COLUMN}

\* What the network may answer to one request.
Statuses == {200, 399, 400, 404, 405, 500}
TransportErrors == {"ConnectionError", "Timeout"}
\* Exceptions that are not a requests.RequestException: one that is an
\* Exception, and three that are not (a subclass of BaseException,
\* BaseException itself and BaseExceptionGroup).
Faults == {"ValueError", "SystemExit", "BaseException", "BaseExceptionGroup"}

\* The exception classes of a run, each with its direct base classes.
Bases ==
    [BaseException |-> {},
     Exception |-> {"BaseException"},
     SystemExit |-> {"BaseException"},
     KeyboardInterrupt |-> {"BaseException"},
     GeneratorExit |-> {"BaseException"},
     BaseExceptionGroup |-> {"BaseException"},
     ExceptionGroup |-> {"BaseExceptionGroup", "Exception"},
     ValueError |-> {"Exception"},
     OSError |-> {"Exception"},
     RequestException |-> {"OSError"},
     ConnectionError |-> {"RequestException"},
     Timeout |-> {"RequestException"}]

RECURSIVE issubclass(_, _)
\* The class test of an except clause: c is base or derives from it.
issubclass(c, base) ==
    c = base \/ \E b \in Bases[c] : issubclass(b, base)
Response(s) == [kind |-> "response", status |-> s, exc |-> ""]
Transport(name) == [kind |-> "transport", status |-> 0, exc |-> name]
Fault(name) == [kind |-> "fault", status |-> 0, exc |-> name]
NetOutcomes ==
    {Response(s) : s \in Statuses}
        \cup {Transport(name) : name \in TransportErrors}
        \cup {Fault(name) : name \in Faults}
\* A network with one answer of each kind the code tells apart.
FewOutcomes ==
    {Response(200), Response(500), Transport("Timeout"), Fault("ValueError"),
     Fault("SystemExit")}

\* Cells of the URL column: a string (a sequence of characters) or a
\* non-string value (the NaN pandas gives for a missing cell).
\* The characters str.strip() removes: those for which str.isspace() holds.
Whitespace ==
    (9 .. 13) \cup (28 .. 32) \cup {133, 160, 5760} \cup (8192 .. 8202)
        \cup {8232, 8233, 8239, 8287, 12288}
StrCell(chars) == [isstr |-> TRUE, chars |-> chars]
NaNCell == [isstr |-> FALSE, chars |-> <<>>]
\* NaN, "", " \t\r" followed by U+2003, and "\r a\f".
UrlValues ==
    {NaNCell, StrCell(<<>>), StrCell(<<32, 9, 13, 8195>>), StrCell(<<13, 32, 97, 12>>)}
\* The same and every string of one whitespace character.
ProbeUrlValues == UrlValues \cup {StrCell(<<c>>) : c \in Whitespace}

\* A status as check_one returns it: an int or a str.
IntStatus(s) == [isint |-> TRUE, code |-> s, text |-> ""]
StrStatus(t) == [isint |-> FALSE, code |-> 0, text |-> t]
NoStatus == StrStatus("")

NoFuture == 0

VARIABLES
    column,         \* args.column
    column_ok,      \* args.column in df.columns
    cells,          \* df[args.column], by row position
    index,          \* df.index: the label of each row, by row position
    workers,        \* args.workers
    net,            \* the answers the network can give to a request in this run
    mpc,            \* where main is
    urls,           \* main's urls
    next_i,         \* the index the submitting comprehension is at
    future_to_idx,  \* main's future_to_idx
    future,         \* the futures: state, result, exception
    queue,          \* the executor's work queue
    cur,            \* the work item each worker thread is running
    probe,          \* the check_one invocation of each future
    yielded,        \* the futures as_completed has yielded
    results,        \* main's results
    status_map,     \* main's status_map
    report          \* what was written and printed

vars == <<column, column_ok, cells, index, workers, net, mpc, urls, next_i, future_to_idx, future,
          queue, cur, probe, yielded, results, status_map, report>>

mainVars == <<mpc, urls, next_i, future_to_idx, yielded, results, status_map, report>>
inputVars == <<column, column_ok, cells, index, workers, net>>

-----------------------------------------------------------------------------
\* Pure helpers.

RECURSIVE lstrip(_)
lstrip(s) ==
    IF s # <<>> /\ Head(s) \in Whitespace THEN lstrip(Tail(s)) ELSE s

RECURSIVE rstrip(_)
rstrip(s) ==
    IF s # <<>> /\ s[Len(s)] \in Whitespace
    THEN rstrip(SubSeq(s, 1, Len(s) - 1))
    ELSE s

\* str.strip()
strip(s) == rstrip(lstrip(s))

\* The test of line 17 without the strip.
is_empty_url_unstripped(url) == ~url.isstr \/ url.chars = <<>>

\* line 17: not isinstance(url, str) or not url.strip()
is_empty_url(url) == ~url.isstr \/ strip(url.chars) = <<>>

\* The test of line 25 without the exception made for 404.
needs_get_also_404(s) == s = 405 \/ s >= 400

\* line 25: the HEAD status that sends check_one on to a GET
needs_get(s) == s = 405 \/ (s >= 400 /\ s # 404)

\* The backoff of line 31 counted from the attempt number itself.
backoff_from_zero(attempt) == BACKOFF_MS * attempt

\* line 31: the backoff slept after a failed attempt
backoff(attempt) == BACKOFF_MS * (attempt + 1)

\* lines 33 and 58: f"error: {type(e).__name__}"
error_status(name) == StrStatus("error: " \o name)

\* The test of line 67 with a strict comparison.
is_broken_above_400(s) == IF s.isint THEN s.code > 400 ELSE TRUE

\* lines 65-68
is_broken(s) == IF s.isint THEN s.code >= 400 ELSE TRUE

\* The map of line 62 keyed by the position of the pair in results.
dict_of_by_position(pairs) == [i \in {k - 1 : k \in DOMAIN pairs} |-> pairs[i + 1][2]]

\* line 62: {i: s for i, s in results}; a later pair replaces an earlier one
dict_of(pairs) ==
    [i \in {pairs[k][1] : k \in DOMAIN pairs} |->
        LET last == CHOOSE k \in DOMAIN pairs :
                        /\ pairs[k][1] = i
                        /\ \A j \in DOMAIN pairs : pairs[j][1] = i => j <= k
        IN pairs[last][2]]

\* The lookup of line 70 with no default given: get returns None.
status_of_no_default(map, i) == IF i \in DOMAIN map THEN map[i] ELSE StrStatus("None")

\* line 70: status_map.get(i, "error: missing")
status_of(map, i) == IF i \in DOMAIN map THEN map[i] ELSE StrStatus("error: missing")

\* line 70: df.index.map(lambda i: status_map.get(i, "error: missing")), the
\* column IMAGE_STATUS by row position; the lookup is by the row's label
image_status(map, idx) == [i \in DOMAIN idx |-> status_of(map, idx[i])]

\* line 70: df[name] after the assignment to df["IMAGE_STATUS"], which
\* replaces a column of that name: the statuses when the URL column is the
\* one named IMAGE_STATUS, the cells read at line 44 otherwise
column_after(name, cls, image) == IF name = STATUS_COLUMN THEN image ELSE cls

RECURSIVE rows_upto(_, _, _)
\* line 71: the rows 0..k-1 whose IMAGE_STATUS is broken, in row order, each
\* with what the column args.column (cols) and the column IMAGE_STATUS hold
rows_upto(image, cols, k) ==
    IF k = 0 THEN <<>>
    ELSE LET i == k - 1
         IN IF is_broken(image[i])
            THEN Append(rows_upto(image, cols, i),
                        [row |-> i, url |-> cols[i], status |-> image[i]])
            ELSE rows_upto(image, cols, i)

NumRows == Cardinality(DOMAIN cells)

-----------------------------------------------------------------------------
\* Initial state: the arguments and the input table, before main runs.

UrlVectors(maxn, values) == UNION {[0 .. (n - 1) -> values] : n \in 0 .. maxn}

\* line 44: the index read_csv gives a file whose rows have as many fields as
\* the header
RangeIndex(n) == [i \in 0 .. (n - 1) |-> i]

\* line 44: the indexes of the tables of n rows the collation is tried on.
\* When the rows of the file have one field more than the header, read_csv
\* takes the first field as the label of the row: labels that are the
\* positions moved by one, labels that are all 0, and the labels 7, 9, ...
\* that are no position (as any label that is not an integer).
IndexValues(n) ==
    {RangeIndex(n),
     [i \in 0 .. (n - 1) |-> i + 1],
     [i \in 0 .. (n - 1) |-> 0],
     [i \in 0 .. (n - 1) |-> 7 + 2 * i]}

\* The report: the column IMAGE_STATUS of df, the rows of broken_df (the
\* position of the row in df, the value it has in the column args.column and
\* its IMAGE_STATUS) and the two counts printed.
NoReport ==
    [written |-> FALSE, statuses |-> <<>>, rows |-> <<>>, checked |-> 0, broken |-> 0]

\* Before main runs, for a file whose rows have as many fields as the header
\* (the index is then the default one; nothing before line 70 reads it).
InitWith(maxn, values, outcomes, names) ==
    /\ column \in names
    /\ column_ok \in BOOLEAN
    /\ cells \in UrlVectors(maxn, values)
    /\ index = RangeIndex(NumRows)
    /\ workers \in 1 .. MaxWorkers
    /\ net = outcomes
    /\ mpc = "read"
    /\ urls = <<>>
    /\ next_i = 0
    /\ future_to_idx = <<>>
    /\ future = <<>>
    /\ queue = <<>>
    /\ cur = [w \in 1 .. workers |-> NoFuture]
    /\ probe = <<>>
    /\ yielded = {}
    /\ results = <<>>
    /\ status_map = <<>>
    /\ report = NoReport

\* A run of the dispatcher over up to MaxUrls rows.  The URL column has its
\* default name (nothing before line 70 reads the name once line 45 is
\* passed).
Init == InitWith(MaxUrls, UrlValues, FewOutcomes, {DEFAULT_COLUMN})

\* A run over up to MaxProbeUrls rows, with every answer of the network.
ProbeInit == InitWith(MaxProbeUrls, ProbeUrlValues, NetOutcomes, {DEFAULT_COLUMN})

-----------------------------------------------------------------------------
\* main, up to the end of the with block.

\* Lines 44-48 without the test of line 45.
ReadInput_unchecked ==
    /\ mpc = "read"
    /\ mpc' = "submit"
    /\ urls' = cells
    /\ UNCHANGED <<inputVars, next_i, future_to_idx, future, queue, cur, probe,
                   yielded, results, status_map, report>>

\* lines 44-48
ReadInput ==
    /\ mpc = "read"
    /\ IF column_ok
       THEN mpc' = "submit" /\ urls' = cells
       ELSE mpc' = "aborted" /\ urls' = urls
    /\ UNCHANGED <<inputVars, next_i, future_to_idx, future, queue, cur, probe,
                   yielded, results, status_map, report>>

NewFuture == [state |-> "PENDING", result |-> NoStatus, exception |-> ""]

\* The call check_one(url, timeout) a work item holds, before it runs: the
\* task it was submitted for, its argument, its locals url and attempt, and
\* what it has done so far: the times it was called, the HEAD requests it
\* issued, the sleeps it made and the requests of the attempt it is in.
NewProbe(i, url) ==
    [pc |-> "pending", task |-> i, arg |-> url, url |-> url, attempt |-> 0,
     calls |-> 0, heads |-> 0, slept |-> <<>>, trace |-> <<>>]

\* line 52, one iteration: ex.submit(check_one, url, args.timeout): i
Submit ==
    /\ mpc = "submit"
    /\ next_i < Cardinality(DOMAIN urls)
    /\ LET f == Cardinality(DOMAIN future) + 1
       IN /\ future' = future @@ (f :> NewFuture)
          /\ probe' = probe @@ (f :> NewProbe(next_i, urls[next_i]))
          /\ queue' = Append(queue, f)
          /\ future_to_idx' = future_to_idx @@ (f :> next_i)
    /\ next_i' = next_i + 1
    /\ UNCHANGED <<inputVars, mpc, urls, cur, yielded, results, status_map, report>>

\* line 52 exhausted, line 53 entered
StartCollect ==
    /\ mpc = "submit"
    /\ next_i = Cardinality(DOMAIN urls)
    /\ mpc' = "collect"
    /\ UNCHANGED <<inputVars, urls, next_i, future_to_idx, future, queue, cur,
                   probe, yielded, results, status_map, report>>

\* as_completed yielding a finished future again.
as_completed_ready_again ==
    {f \in DOMAIN future_to_idx : future[f].state = "FINISHED"}

\* line 53: the futures as_completed may yield next
as_completed_ready ==
    {f \in DOMAIN future_to_idx \ yielded : future[f].state = "FINISHED"}

\* line 57: except Exception catches what future.result() raises
is_caught(name) == issubclass(name, "Exception")

\* lines 56-57: future.result() raises an exception that line 57 lets through
result_escapes(f) == future[f].exception # "" /\ ~is_caught(future[f].exception)

\* lines 55-58: future.result(), or the error status of the Exception it
\* raises; no status is bound when the exception is not an Exception
collected_status(f) ==
    IF future[f].exception = "" THEN future[f].result
    ELSE IF is_caught(future[f].exception) THEN error_status(future[f].exception)
    ELSE NoStatus

\* The pair keyed by the order of completion instead of the future's index.
collected_pair_by_completion(f) == <<Len(results), collected_status(f)>>

\* lines 54 and 59: the pair appended for a yielded future
collected_pair(f) == <<future_to_idx[f], collected_status(f)>>

\* lines 53-59, one iteration: the pair is appended, or the exception of
\* future.result() leaves the loop, and main is in the exit of the with
\* block with that exception
Collect ==
    /\ mpc = "collect"
    /\ \E f \in as_completed_ready :
        /\ yielded' = yielded \cup {f}
        /\ IF result_escapes(f)
           THEN mpc' = "unwind" /\ results' = results
           ELSE mpc' = mpc /\ results' = Append(results, collected_pair(f))
    /\ UNCHANGED <<inputVars, urls, next_i, future_to_idx, future, queue,
                   cur, probe, status_map, report>>

\* The with block left without waiting: the loop of line 53 ends at the
\* first future that is not finished yet, and the pool is not joined.
ExitPool_no_wait ==
    /\ mpc = "collect"
    /\ mpc' = "collate"
    /\ UNCHANGED <<inputVars, urls, next_i, future_to_idx, future, queue, cur,
                   probe, yielded, results, status_map, report>>

\* lines 53 and 51: as_completed is exhausted, or an exception has left
\* the loop, and the with block ends (shutdown(wait=True): the queue is
\* drained and every worker thread has finished); main goes on to line 62,
\* or ends with the exception
ExitPool ==
    /\ mpc \in {"collect", "unwind"}
    /\ mpc = "collect" => yielded = DOMAIN future_to_idx
    /\ queue = <<>>
    /\ \A w \in DOMAIN cur : cur[w] = NoFuture
    /\ mpc' = IF mpc = "collect" THEN "collate" ELSE "raised"
    /\ UNCHANGED <<inputVars, urls, next_i, future_to_idx, future, queue, cur,
                   probe, yielded, results, status_map, report>>

\* lines 62-80
Collate ==
    /\ mpc = "collate"
    /\ status_map' = dict_of(results)
    /\ LET image == image_status(status_map', index)
           broken_df == rows_upto(image, column_after(column, cells, image), NumRows)
       IN report' = [written |-> TRUE, statuses |-> image, rows |-> broken_df,
                     checked |-> NumRows, broken |-> Len(broken_df)]
    /\ mpc' = "done"
    /\ UNCHANGED <<inputVars, urls, next_i, future_to_idx, future, queue, cur,
                   probe, yielded, results>>

-----------------------------------------------------------------------------
\* The worker threads of the pool.

\* A worker thread taking the next work item whether or not it has one.
TakeTask_while_busy(w) ==
    /\ queue # <<>>
    /\ LET f == Head(queue)
       IN /\ cur' = [cur EXCEPT ![w] = f]
          /\ future' = [future EXCEPT ![f].state = "RUNNING"]
          /\ probe' = [probe EXCEPT ![f].pc = "entry", ![f].calls = @ + 1]
    /\ queue' = Tail(queue)
    /\ UNCHANGED <<inputVars, mainVars>>

\* A worker thread with no work item takes the oldest one of the queue and
\* calls check_one.
TakeTask(w) ==
    /\ cur[w] = NoFuture
    /\ queue # <<>>
    /\ LET f == Head(queue)
       IN /\ cur' = [cur EXCEPT ![w] = f]
          /\ future' = [future EXCEPT ![f].state = "RUNNING"]
          /\ probe' = [probe EXCEPT ![f].pc = "entry", ![f].calls = @ + 1]
    /\ queue' = Tail(queue)
    /\ UNCHANGED <<inputVars, mainVars>>

\* check_one returns val: the work item sets the future's result and the
\* thread is free again.
Return(w, p, val) ==
    /\ probe' = [probe EXCEPT ![cur[w]] = [p EXCEPT !.pc = "returned"]]
    /\ future' = [future EXCEPT ![cur[w]] =
                    [state |-> "FINISHED", result |-> val, exception |-> ""]]
    /\ cur' = [cur EXCEPT ![w] = NoFuture]

\* check_one raises name: the work item sets the future's exception.
Raise(w, p, name) ==
    /\ probe' = [probe EXCEPT ![cur[w]] = [p EXCEPT !.pc = "raised"]]
    /\ future' = [future EXCEPT ![cur[w]] =
                    [state |-> "FINISHED", result |-> NoStatus, exception |-> name]]
    /\ cur' = [cur EXCEPT ![w] = NoFuture]

\* check_one goes on, at pc.
Goto(w, p, pc) ==
    /\ probe' = [probe EXCEPT ![cur[w]] = [p EXCEPT !.pc = pc]]
    /\ UNCHANGED <<future, cur>>

\* Lines 17-21 with the worker thread itself appending the "empty" of line 18
\* to results.
Entry_worker_appends(w) ==
    /\ cur[w] # NoFuture
    /\ LET p == probe[cur[w]]
       IN /\ p.pc = "entry"
          /\ IF is_empty_url(p.url)
             THEN /\ Return(w, p, StrStatus("empty"))
                  /\ results' = Append(results, <<p.task, StrStatus("empty")>>)
             ELSE /\ Goto(w, [p EXCEPT !.url = StrCell(strip(p.url.chars)),
                                       !.attempt = 0], "head")
                  /\ results' = results
    /\ UNCHANGED <<inputVars, mpc, urls, next_i, future_to_idx, yielded,
                   status_map, report, queue>>

\* lines 17-21
Entry(w) ==
    /\ cur[w] # NoFuture
    /\ LET p == probe[cur[w]]
       IN /\ p.pc = "entry"
          /\ IF is_empty_url(p.url)
             THEN Return(w, p, StrStatus("empty"))
             ELSE Goto(w, [p EXCEPT !.url = StrCell(strip(p.url.chars)),
                                    !.attempt = 0], "head")
    /\ UNCHANGED <<inputVars, mainVars, queue>>

\* The handler of lines 28-33 giving up one attempt early.
on_request_exception_one_short(w, p, name) ==
    IF p.attempt < RETRIES - 1
    THEN Goto(w, p, "sleep")
    ELSE Return(w, p, error_status(name))

\* lines 28-33: the handler of requests.RequestException
on_request_exception(w, p, name) ==
    IF p.attempt < RETRIES
    THEN Goto(w, p, "sleep")
    ELSE Return(w, p, error_status(name))

\* The HEAD of lines 24-25 with the fallback to GET taken on a failed HEAD too.
head_outcome_get_on_failure(w, p, o) ==
    LET q == [p EXCEPT !.heads = @ + 1,
                       !.trace = Append(@, [method |-> "HEAD", kind |-> o.kind,
                                            status |-> o.status, exc |-> o.exc])]
    IN CASE o.kind = "response" ->
                IF needs_get(o.status)
                THEN Goto(w, q, "get")
                ELSE Return(w, q, IntStatus(o.status))
         [] o.kind = "transport" -> Goto(w, q, "get")
         [] o.kind = "fault" -> Raise(w, q, o.exc)

\* lines 24-25 (and 27), for what the HEAD request meets
head_outcome(w, p, o) ==
    LET q == [p EXCEPT !.heads = @ + 1,
                       !.trace = Append(@, [method |-> "HEAD", kind |-> o.kind,
                                            status |-> o.status, exc |-> o.exc])]
    IN CASE o.kind = "response" ->
                IF needs_get(o.status)
                THEN Goto(w, q, "get")
                ELSE Return(w, q, IntStatus(o.status))
         [] o.kind = "transport" -> on_request_exception(w, q, o.exc)
         [] o.kind = "fault" -> Raise(w, q, o.exc)

\* The GET of lines 26-27 with a 5xx answer handled like a failed request.
get_outcome_retry_5xx(w, p, o) ==
    LET q == [p EXCEPT !.trace = Append(@, [method |-> "GET", kind |-> o.kind,
                                     status |-> o.status, exc |-> o.exc])]
    IN CASE o.kind = "response" /\ o.status < 500 -> Return(w, q, IntStatus(o.status))
         [] o.kind = "response" /\ o.status >= 500 ->
                IF p.attempt < RETRIES
                THEN Goto(w, q, "sleep")
                ELSE Return(w, q, IntStatus(o.status))
         [] o.kind = "transport" -> on_request_exception(w, q, o.exc)
         [] o.kind = "fault" -> Raise(w, q, o.exc)

\* The GET of lines 26-27 with a failed GET falling back on the HEAD status.
get_outcome_keep_head(w, p, o) ==
    LET q == [p EXCEPT !.trace = Append(@, [method |-> "GET", kind |-> o.kind,
                                     status |-> o.status, exc |-> o.exc])]
    IN CASE o.kind = "response" -> Return(w, q, IntStatus(o.status))
         [] o.kind = "transport" -> Return(w, q, IntStatus(p.trace[1].status))
         [] o.kind = "fault" -> Raise(w, q, o.exc)

\* lines 26-27, for what the GET request meets
get_outcome(w, p, o) ==
    LET q == [p EXCEPT !.trace = Append(@, [method |-> "GET", kind |-> o.kind,
                                     status |-> o.status, exc |-> o.exc])]
    IN CASE o.kind = "response" -> Return(w, q, IntStatus(o.status))
         [] o.kind = "transport" -> on_request_exception(w, q, o.exc)
         [] o.kind = "fault" -> Raise(w, q, o.exc)

HeadRequest(w) ==
    /\ cur[w] # NoFuture
    /\ probe[cur[w]].pc = "head"
    /\ \E o \in net : head_outcome(w, probe[cur[w]], o)
    /\ UNCHANGED <<inputVars, mainVars, queue>>

GetRequest(w) ==
    /\ cur[w] # NoFuture
    /\ probe[cur[w]].pc = "get"
    /\ \E o \in net : get_outcome(w, probe[cur[w]], o)
    /\ UNCHANGED <<inputVars, mainVars, queue>>

\* lines 31-32 and 21: sleep, then the next attempt
Sleep(w) ==
    /\ cur[w] # NoFuture
    /\ LET p == probe[cur[w]]
       IN /\ p.pc = "sleep"
          /\ Goto(w, [p EXCEPT !.slept = Append(@, backoff(p.attempt)),
                               !.attempt = @ + 1,
                               !.trace = <<>>], "head")
    /\ UNCHANGED <<inputVars, mainVars, queue>>

Next ==
    \/ ReadInput
    \/ Submit
    \/ StartCollect
    \/ Collect
    \/ ExitPool
    \/ Collate
    \/ \E w \in DOMAIN cur : TakeTask(w)
    \/ \E w \in DOMAIN cur : Entry(w)
    \/ \E w \in DOMAIN cur : HeadRequest(w)
    \/ \E w \in DOMAIN cur : GetRequest(w)
    \/ \E w \in DOMAIN cur : Sleep(w)

Spec == Init /\ [][Next]_vars

ProbeSpec == ProbeInit /\ [][Next]_vars

\* The steps of the main thread and of worker thread w.
MainStep ==
    \/ ReadInput
    \/ Submit
    \/ StartCollect
    \/ Collect
    \/ ExitPool
    \/ Collate
WorkerStep(w) ==
    /\ w \in DOMAIN cur
    /\ \/ TakeTask(w)
       \/ Entry(w)
       \/ HeadRequest(w)
       \/ GetRequest(w)
       \/ Sleep(w)

\* Every thread that can take a step eventually takes one: the threads are
\* scheduled, every request returns or raises within its timeout (lines 24
\* and 26) and every sleep ends (line 31).
Fairness ==
    /\ WF_vars(MainStep)
    /\ \A w \in 1 .. MaxWorkers : WF_vars(WorkerStep(w))

FairSpec == Init /\ [][Next]_vars /\ Fairness

-----------------------------------------------------------------------------
\* Runs in which every request is answered 200.  No probe then reaches the
\* GET of line 26 or the backoff of line 31, so these two steps are left out
\* of the next-state relation.  The URL column has either name.

AlwaysOk == {Response(200)}

OkInit == InitWith(MaxUrls, UrlValues, AlwaysOk, ColumnNames)

OkNext ==
    \/ ReadInput
    \/ Submit
    \/ StartCollect
    \/ Collect
    \/ ExitPool
    \/ Collate
    \/ \E w \in DOMAIN cur : TakeTask(w)
    \/ \E w \in DOMAIN cur : Entry(w)
    \/ \E w \in DOMAIN cur : HeadRequest(w)

OkSpec == OkInit /\ [][OkNext]_vars

-----------------------------------------------------------------------------
\* The classification on its own: main at line 62, after the with block, for
\* a table of one row, its URL column under each name, whose probe ended with
\* any status.  The pool has shut down; its futures play no part from here on
\* and are left out.

ClassifyInputs ==
    {IntStatus(s) : s \in MinStatus .. MaxStatus}
        \cup {StrStatus("empty")}
        \cup {error_status(name) : name \in {e \in TransportErrors \cup Faults : is_caught(e)}}

ClassifyInit ==
    /\ column \in ColumnNames
    /\ column_ok = TRUE
    /\ workers = 1
    /\ net = NetOutcomes
    /\ mpc = "collate"
    /\ \E s \in ClassifyInputs :
        /\ cells = (0 :> (IF s = StrStatus("empty") THEN NaNCell
                          ELSE StrCell(<<97>>)))
        /\ results = <<<<0, s>>>>
    /\ index \in IndexValues(NumRows)
    /\ urls = cells
    /\ next_i = 1
    /\ future_to_idx = <<>>
    /\ future = <<>>
    /\ queue = <<>>
    /\ cur = [w \in 1 .. workers |-> NoFuture]
    /\ probe = <<>>
    /\ yielded = {}
    /\ status_map = <<>>
    /\ report = NoReport

ClassifyNext == Collate

ClassifySpec == ClassifyInit /\ [][ClassifyNext]_vars

-----------------------------------------------------------------------------
\* The collation on its own: main at line 62 for a table of up to
\* MaxCollateRows rows under each of its indexes and each name of its URL
\* column, each row with the status its probe ended with, recorded in any
\* order of completion, for all of the rows or for some of them only.

\* A cell of the table with a status a probe of it can end with.
CollateCases ==
    {[cell |-> NaNCell, status |-> StrStatus("empty")],
     [cell |-> StrCell(<<111, 107>>), status |-> IntStatus(200)],
     [cell |-> StrCell(<<109, 105, 115, 115>>), status |-> IntStatus(404)],
     [cell |-> StrCell(<<109, 105, 115, 115>>), status |-> error_status("Timeout")]}

\* The orders in which some of the rows 0..n-1 can have been recorded.
RecordOrders(n) ==
    {o \in UNION {[1 .. k -> 0 .. (n - 1)] : k \in 0 .. n} :
        \A a, b \in DOMAIN o : a # b => o[a] # o[b]}

CollateInit ==
    /\ column \in ColumnNames
    /\ column_ok = TRUE
    /\ workers = 1
    /\ net = NetOutcomes
    /\ mpc = "collate"
    /\ \E n \in 0 .. MaxCollateRows :
        \E rows \in [0 .. (n - 1) -> CollateCases] :
            \E o \in RecordOrders(n) :
                /\ cells = [i \in 0 .. (n - 1) |-> rows[i].cell]
                /\ results = [k \in DOMAIN o |-> <<o[k], rows[o[k]].status>>]
    /\ index \in IndexValues(NumRows)
    /\ urls = cells
    /\ next_i = NumRows
    /\ future_to_idx = <<>>
    /\ future = <<>>
    /\ queue = <<>>
    /\ cur = [w \in 1 .. workers |-> NoFuture]
    /\ probe = <<>>
    /\ yielded = {}
    /\ status_map = <<>>
    /\ report = NoReport

CollateNext == Collate

CollateSpec == CollateInit /\ [][CollateNext]_vars

-----------------------------------------------------------------------------
\* Properties of the dispatcher.

Rows == DOMAIN urls
Futures == DOMAIN future
Collected(i) == {k \in DOMAIN results : results[k][1] = i}
InvocationsOf(i) == {f \in Futures : probe[f].task = i}
Completed == mpc \in {"collate", "done"}
Running(f) == probe[f].pc \in {"entry", "head", "get", "sleep"}
Ended(f) == probe[f].pc \in {"returned", "raised"}

\* C1, in every state: no index is recorded twice, a recorded index is one
\* of the table, no task has more than one probe invocation and no
\* invocation is called more than once; after a completed dispatch every
\* index 0..n-1 is recorded exactly once, every task was submitted to
\* exactly one invocation, called exactly once, and the result map has
\* exactly the indices 0..n-1.
C1_State ==
    /\ \A k \in DOMAIN results : results[k][1] \in Rows
    /\ \A i \in Rows :
        /\ Cardinality(Collected(i)) <= 1
        /\ Cardinality(InvocationsOf(i)) <= 1
    /\ \A f \in Futures : probe[f].calls <= 1
    /\ Completed =>
        /\ Len(results) = Cardinality(Rows)
        /\ \A i \in Rows :
            /\ Cardinality(Collected(i)) = 1
            /\ Cardinality(InvocationsOf(i)) = 1
        /\ \A f \in Futures : probe[f].calls = 1
    /\ mpc = "done" => DOMAIN status_map = Rows

\* C1, in every step: a recorded pair stays as it is, and so does the result
\* map once it is built.
C1_Step ==
    /\ \A k \in DOMAIN results : k \in DOMAIN results' /\ results'[k] = results[k]
    /\ mpc = "done" => status_map' = status_map

\* C1: after a completed dispatch the result map contains every index 0..n-1
\* exactly once: one probe invocation and one recorded pair per task, no
\* index dropped or duplicated, and a recorded outcome is never changed.
C1_EveryIndexExactlyOnce == []C1_State /\ [][C1_Step]_vars

\* Two rows were dispatched, the second finished first, and the map is built.
C1_Witness ==
    /\ mpc = "done"
    /\ Len(results) = 2
    /\ results[1][1] = 1
    /\ results[2][1] = 0
    /\ DOMAIN status_map = {0, 1}

\* C2: the outcome recorded under index i, and stored under i in the result
\* map, is the one returned by the probe invoked on urls[i], whatever the
\* order in which the probes finish.
C2_OutcomeOfOwnProbe ==
    /\ \A k \in DOMAIN results :
        \E f \in Futures :
            /\ probe[f].task = results[k][1]
            /\ probe[f].arg = urls[results[k][1]]
            /\ future[f].state = "FINISHED"
            /\ future[f].exception = "" => results[k][2] = future[f].result
    /\ mpc = "done" =>
        \A f \in Futures :
            /\ probe[f].task \in DOMAIN status_map
            /\ future[f].exception = "" => status_map[probe[f].task] = future[f].result

\* Two rows with the same URL: the second finished first with 200, the first
\* then with 500, and each is stored under its own index.
C2_Witness ==
    /\ mpc = "done"
    /\ Len(results) = 2
    /\ urls[0] = urls[1]
    /\ results[1] = <<1, IntStatus(200)>>
    /\ results[2] = <<0, IntStatus(500)>>
    /\ status_map[0] = IntStatus(500)
    /\ status_map[1] = IntStatus(200)

-----------------------------------------------------------------------------
\* Properties of the probe.  The trace of a probe holds the requests of the
\* attempt it is in (or ended in), in the order they were issued.

IsResponse(e) == e.kind = "response"
IsTransport(e) == e.kind = "transport"
Last(t) == t[Len(t)]
Blank(url) == ~url.isstr \/ \A k \in DOMAIN url.chars : url.chars[k] \in Whitespace
\* The timeline of a probe all of whose requests so far were a HEAD that
\* raised a transport exception, in its attempt a (0-based).
SleptBefore(a) == [k \in 1 .. a |-> 500 * k]

\* C3: a probe of a non-blank URL whose attempt is a HEAD that raised a
\* transport exception has, in attempt a, issued a + 1 HEAD requests and
\* slept a times, 0.5 s then 1.0 s; in attempts 0 and 1 it goes on to sleep
\* and retry, and in attempt 2 it has returned an error sentinel after exactly
\* 3 attempts and exactly the two sleeps <<0.5 s, 1.0 s>>, none after the third.
C3_ThreeAttemptsTwoSleeps ==
    \A f \in Futures :
        LET p == probe[f]
        IN (~Blank(p.arg) /\ Len(p.trace) = 1 /\ IsTransport(p.trace[1])) =>
            /\ p.attempt \in 0 .. 2
            /\ p.heads = p.attempt + 1
            /\ p.slept = SleptBefore(p.attempt)
            /\ p.attempt < 2 => p.pc = "sleep"
            /\ p.attempt = 2 =>
                /\ p.pc = "returned"
                /\ p.heads = 3
                /\ p.slept = <<500, 1000>>
                /\ future[f].result = StrStatus("error: " \o p.trace[1].exc)
                /\ future[f].exception = ""

\* The third HEAD of a probe raised like the two before it and the probe
\* returned the error sentinel.
C3_Witness ==
    \E f \in Futures :
        /\ probe[f].pc = "returned"
        /\ probe[f].heads = 3
        /\ probe[f].slept = <<500, 1000>>
        /\ probe[f].trace = <<[method |-> "HEAD", kind |-> "transport",
                               status |-> 0, exc |-> "Timeout"]>>
        /\ future[f].result = StrStatus("error: Timeout")

\* The HEAD statuses after which the claims say a GET follows.
FallbackStatus(s) == s = 405 \/ (s >= 400 /\ s # 404)

\* In every attempt a GET is issued iff the HEAD was answered with a fallback
\* status, and an attempt has at most the HEAD and one GET.
GetIffFallback(p) ==
    LET t == p.trace
    IN /\ p.pc = "get" => Len(t) = 1
       /\ Len(t) <= 2
       /\ (Len(t) = 2 \/ p.pc = "get") =>
            IsResponse(t[1]) /\ FallbackStatus(t[1].status)
       /\ (Len(t) = 1 /\ IsResponse(t[1]) /\ FallbackStatus(t[1].status)) =>
            p.pc = "get"
       /\ (Len(t) = 1 /\ IsResponse(t[1]) /\ ~FallbackStatus(t[1].status)) =>
            p.pc = "returned"

\* C4 as claimed: within an attempt a GET is issued iff the HEAD status is
\* 405 or is >= 400 and not 404; when the GET is issued and succeeds the
\* probe returns the GET status, and otherwise, also when the GET raises, it
\* returns the HEAD status: a probe that returned out of an attempt whose
\* HEAD was answered returned the status of the answered GET or else of the
\* HEAD.
C4_OtherwiseHeadStatus ==
    \A f \in Futures :
        LET p == probe[f]
            t == p.trace
        IN /\ GetIffFallback(p)
           /\ (p.pc = "returned" /\ t # <<>> /\ IsResponse(t[1])) =>
                future[f].result =
                    IF Len(t) = 2 /\ IsResponse(t[2])
                    THEN IntStatus(t[2].status)
                    ELSE IntStatus(t[1].status)

\* C4 as amended: within an attempt a GET is issued iff the HEAD status is
\* 405 or is >= 400 and not 404; the probe returns the GET status when the
\* GET is issued and answered, and the HEAD status when no GET is issued (a
\* HEAD status of 404 or below 400 is returned with no GET); when the GET is
\* issued and raises, the HEAD status is not returned: after a transport
\* exception the attempt has failed (backoff before the third attempt, the
\* error sentinel of the exception in the third), and any other exception
\* leaves the probe.
C4_GetIffFallbackStatus ==
    \A f \in Futures :
        LET p == probe[f]
            t == p.trace
        IN /\ GetIffFallback(p)
           /\ (Len(t) = 1 /\ IsResponse(t[1]) /\ ~FallbackStatus(t[1].status)) =>
                /\ p.pc = "returned"
                /\ future[f].result = IntStatus(t[1].status)
           /\ (Len(t) = 2 /\ IsResponse(t[2])) =>
                /\ p.pc = "returned"
                /\ future[f].result = IntStatus(t[2].status)
           /\ (Len(t) = 2 /\ IsTransport(t[2])) =>
                /\ p.attempt < 2 => p.pc = "sleep"
                /\ p.attempt = 2 =>
                    /\ p.pc = "returned"
                    /\ future[f].result = StrStatus("error: " \o t[2].exc)
           /\ (Len(t) = 2 /\ ~IsResponse(t[2]) /\ ~IsTransport(t[2])) =>
                /\ p.pc = "raised"
                /\ future[f].exception = t[2].exc

\* In its first attempt a HEAD answered 405 was followed by a GET that raised
\* ConnectionError: the probe is in the backoff and has returned nothing.
C4_Witness ==
    \E f \in Futures :
        /\ probe[f].pc = "sleep"
        /\ probe[f].attempt = 0
        /\ Len(probe[f].trace) = 2
        /\ probe[f].trace[1].status = 405
        /\ probe[f].trace[2].exc = "ConnectionError"
        /\ future[f].state = "RUNNING"

\* C5: in every attempt the first request is a HEAD, a GET comes only second
\* and only after a HEAD that returned a response; a HEAD answered 405
\* followed by a GET answered 404 gives StatusCode(404).
C5_HeadBeforeGet ==
    \A f \in Futures :
        LET p == probe[f]
            t == p.trace
        IN /\ t # <<>> => t[1].method = "HEAD"
           /\ \A k \in DOMAIN t :
                t[k].method = "GET" =>
                    k = 2 /\ t[1].method = "HEAD" /\ IsResponse(t[1])
           /\ p.pc = "get" => (Len(t) = 1 /\ t[1].method = "HEAD" /\ IsResponse(t[1]))
           /\ p.heads >= (IF t = <<>> THEN 0 ELSE 1)
           /\ (Len(t) = 2 /\ t[1].status = 405 /\ IsResponse(t[2]) /\ t[2].status = 404) =>
                /\ p.pc = "returned"
                /\ future[f].result = IntStatus(404)

\* HEAD answered 405, GET answered 404, the probe returned 404.
C5_Witness ==
    \E f \in Futures :
        /\ probe[f].pc = "returned"
        /\ probe[f].trace = <<[method |-> "HEAD", kind |-> "response",
                               status |-> 405, exc |-> ""],
                              [method |-> "GET", kind |-> "response",
                               status |-> 404, exc |-> ""]>>
        /\ future[f].result = IntStatus(404)

\* C6, in every state: once the last request of the attempt was answered,
\* the probe is either about to issue the GET that follows its HEAD or has
\* returned the status of that answer; it is never retrying or sleeping.
C6_State ==
    \A f \in Futures :
        LET p == probe[f]
            t == p.trace
        IN (t # <<>> /\ IsResponse(Last(t))) =>
            \/ p.pc = "get" /\ Len(t) = 1
            \/ /\ p.pc = "returned"
               /\ future[f].state = "FINISHED"
               /\ future[f].exception = ""
               /\ future[f].result = IntStatus(Last(t).status)

\* C6, in every step: a probe that has returned issues no request, makes no
\* attempt and does not sleep, and its outcome stays.
C6_Step ==
    \A f \in Futures :
        probe[f].pc = "returned" =>
            /\ probe'[f] = probe[f]
            /\ future'[f] = future[f]

\* C6: as soon as an attempt completes without a transport exception the
\* probe returns StatusCode(status) of the response used and performs no
\* further request, retry or sleep, whatever the status.
C6_ReturnsAtOnce == []C6_State /\ [][C6_Step]_vars

\* A first attempt answered 500 to HEAD and to GET: returned 500, no sleep.
C6_Witness ==
    \E f \in Futures :
        /\ probe[f].pc = "returned"
        /\ probe[f].attempt = 0
        /\ probe[f].slept = <<>>
        /\ Len(probe[f].trace) = 2
        /\ probe[f].trace[2].status = 500
        /\ future[f].result = IntStatus(500)

\* C7: a probe whose url is not a string, is empty or is blank returns
\* EmptySentinel and never issues a HEAD or a GET and never sleeps.
C7_BlankUrlNoRequest ==
    \A f \in Futures :
        LET p == probe[f]
        IN Blank(p.arg) =>
            /\ p.pc \in {"pending", "entry", "returned"}
            /\ p.heads = 0
            /\ p.trace = <<>>
            /\ p.slept = <<>>
            /\ p.pc = "returned" =>
                /\ future[f].result = StrStatus("empty")
                /\ future[f].exception = ""

\* The probe of a URL that is the one character U+2003 (em space) returned
\* "empty".
C7_Witness ==
    \E f \in Futures :
        /\ probe[f].arg = StrCell(<<8195>>)
        /\ probe[f].pc = "returned"
        /\ probe[f].heads = 0
        /\ future[f].result = StrStatus("empty")

-----------------------------------------------------------------------------
\* Properties of the classification.

Retained(i) == \E k \in DOMAIN report.rows : report.rows[k].row = i

\* C8: is_broken decides every outcome: a row whose IMAGE_STATUS is
\* StatusCode(s) is retained as broken iff s >= 400 (not for 399 nor any s in
\* [200,399]; for 400, 404 and every s in [400,599]), and a row whose
\* IMAGE_STATUS is the EmptySentinel or an ErrorSentinel is always retained.
C8_BrokenIffAtLeast400 ==
    mpc = "done" =>
        /\ report.written
        /\ DOMAIN report.statuses = DOMAIN cells
        /\ \A i \in DOMAIN cells :
            LET s == report.statuses[i]
            IN /\ s.isint => (Retained(i) <=> s.code >= 400)
               /\ (s.isint /\ s.code \in 200 .. 399) => ~Retained(i)
               /\ (s.isint /\ s.code \in 400 .. 599) => Retained(i)
               /\ s = IntStatus(399) => ~Retained(i)
               /\ s \in {IntStatus(400), IntStatus(404)} => Retained(i)
               /\ ~s.isint => Retained(i)

\* A row whose IMAGE_STATUS is exactly 400 was classified and retained.
C8_Witness ==
    /\ mpc = "done"
    /\ report.statuses[0] = IntStatus(400)
    /\ Retained(0)

-----------------------------------------------------------------------------
\* Properties of the pool.

InProgress == {f \in Futures : Running(f)}
HoldersOf(f) == {w \in DOMAIN cur : cur[w] = f}

\* C9, in every state: at most worker_count probes are in progress, a probe
\* in progress is run by exactly one worker and a worker's work item is a
\* probe in progress.
C9_State ==
    /\ Cardinality(InProgress) <= workers
    /\ \A f \in Futures : Running(f) <=> Cardinality(HoldersOf(f)) = 1
    /\ \A f \in Futures : Cardinality(HoldersOf(f)) <= 1
    /\ \A w \in DOMAIN cur : cur[w] # NoFuture => cur[w] \in InProgress

\* C9, in every step: a worker lets go of its probe only when that probe has
\* ended, and then it holds none; it takes a task only when it holds none.
C9_Step ==
    \A w \in DOMAIN cur :
        cur'[w] # cur[w] =>
            \/ cur[w] = NoFuture
            \/ /\ cur'[w] = NoFuture
               /\ probe'[cur[w]].pc \in {"returned", "raised"}

\* C9: at every moment at most worker_count probes are in progress, and each
\* worker runs one probe to completion before it takes the next queued task.
C9_BoundedPool == []C9_State /\ [][C9_Step]_vars

\* One worker, asleep in the backoff of its probe, while a task waits.
C9_Witness ==
    /\ workers = 1
    /\ queue # <<>>
    /\ \E f \in Futures : probe[f].pc = "sleep" /\ cur[1] = f

\* C10: when the task of an index raised a fault, that index is recorded with
\* the ErrorSentinel of the fault kind, every other index is recorded with
\* the outcome of its own probe, the run is not aborted and a completed
\* dispatch has the full result map.
C10_FaultIsolated ==
    /\ column_ok => mpc \notin {"aborted", "raised"}
    /\ \A f \in Futures :
        /\ (f \in yielded /\ future[f].exception # "") =>
            /\ Collected(probe[f].task) # {}
            /\ \A k \in Collected(probe[f].task) :
                results[k][2] = StrStatus("error: " \o future[f].exception)
        /\ (f \in yielded /\ future[f].exception = "") =>
            /\ Collected(probe[f].task) # {}
            /\ \A k \in Collected(probe[f].task) : results[k][2] = future[f].result
    /\ Completed => \A f \in Futures : f \in yielded /\ Ended(f)
    /\ mpc = "done" =>
        /\ DOMAIN status_map = Rows
        /\ \A f \in Futures :
            status_map[probe[f].task] =
                IF future[f].exception # ""
                THEN StrStatus("error: " \o future[f].exception)
                ELSE future[f].result

-----------------------------------------------------------------------------
\* Properties of the collation.

\* The status the claims give row i: its recorded outcome, or the missing
\* one.
LabelOf(i) ==
    IF \E k \in DOMAIN results : results[k][1] = i
    THEN results[CHOOSE k \in DOMAIN results : results[k][1] = i][2]
    ELSE StrStatus("error: missing")
BrokenLabel(s) == ~s.isint \/ s.code >= 400

\* C11: after a dispatch that recorded every row, the report has exactly the
\* rows whose outcome is broken, in their original order, each with its own
\* status label and its own cell; the total printed is the number of input
\* rows and the broken count the number of retained rows.  For [ok -> 200,
\* miss -> 404, blank] the report is rows 1 and 2 with labels 404 and
\* "empty", and the totals are 3 and 2.
C11_BrokenRowsInOrder ==
    (mpc = "done" /\ \A i \in DOMAIN cells : Cardinality(Collected(i)) = 1) =>
        /\ report.written
        /\ \A k \in DOMAIN report.rows :
            /\ report.rows[k].row \in DOMAIN cells
            /\ report.rows[k].url = cells[report.rows[k].row]
            /\ report.rows[k].status = LabelOf(report.rows[k].row)
            /\ BrokenLabel(report.rows[k].status)
        /\ \A j, k \in DOMAIN report.rows :
            j < k => report.rows[j].row < report.rows[k].row
        /\ \A i \in DOMAIN cells :
            BrokenLabel(LabelOf(i)) => \E k \in DOMAIN report.rows : report.rows[k].row = i
        /\ report.checked = Cardinality(DOMAIN cells)
        /\ report.broken = Len(report.rows)
        /\ (/\ Cardinality(DOMAIN cells) = 3
            /\ LabelOf(0) = IntStatus(200)
            /\ LabelOf(1) = IntStatus(404)
            /\ LabelOf(2) = StrStatus("empty")) =>
                /\ Len(report.rows) = 2
                /\ report.rows[1].row = 1 /\ report.rows[1].status = IntStatus(404)
                /\ report.rows[2].row = 2 /\ report.rows[2].status = StrStatus("empty")
                /\ report.checked = 3
                /\ report.broken = 2

-----------------------------------------------------------------------------
\* Properties of the run as a whole.

NoRequestYet == \A f \in Futures : probe[f].heads = 0 /\ probe[f].trace = <<>>

\* C12, in every state: when the configured column is absent, main is before
\* line 45 or has aborted, no task was submitted, no request was issued and
\* nothing was written.
C12_State ==
    ~column_ok =>
        /\ mpc \in {"read", "aborted"}
        /\ Futures = {}
        /\ DOMAIN future_to_idx = {}
        /\ queue = <<>>
        /\ NoRequestYet
        /\ results = <<>>
        /\ ~report.written

\* C12, in every step: with the column absent the first step of main is the
\* abort, and an aborted run does nothing more.
C12_Step ==
    /\ (~column_ok /\ mpc = "read") => mpc' = "aborted"
    /\ mpc = "aborted" => UNCHANGED vars

\* C12: if the configured column is absent, the run aborts before any task is
\* submitted and before any request, and no output is written.
C12_AbortBeforeDispatch == []C12_State /\ [][C12_Step]_vars

\* A table of two rows without the configured column: the run has aborted.
C12_Witness ==
    /\ ~column_ok
    /\ mpc = "aborted"
    /\ Cardinality(DOMAIN cells) = 2
    /\ Futures = {}
    /\ ~report.written


\* The result map of a run over urls in which every request is answered 200.
MapWhenAlwaysOk(u) ==
    [i \in DOMAIN u |-> IF Blank(u[i]) THEN StrStatus("empty") ELSE IntStatus(200)]

\* C13: with every request answered 200, the result map of a completed
\* dispatch is determined by the URL sequence alone, so two runs on the same
\* sequence give identical maps, whatever the worker count and the order in
\* which the probes finish in each; and no probe of such a run is ever at a
\* GET or in a backoff.
C13_SameMapEveryRun ==
    /\ \A f \in Futures : probe[f].pc \notin {"get", "sleep"}
    /\ mpc = "done" => status_map = MapWhenAlwaysOk(cells)

\* Two workers, two rows, the second recorded first: the map is the same.
C13_Witness ==
    /\ mpc = "done"
    /\ workers = 2
    /\ Len(results) = 2
    /\ results[1][1] = 1
    /\ cells[0] = StrCell(<<13, 32, 97, 12>>)
    /\ cells[1] = NaNCell
    /\ status_map = MapWhenAlwaysOk(cells)


\* C14: at collation a row whose index label has no entry in the result map
\* is labelled "error: missing" and retained as broken, and the collation
\* never fails, over a partial result map either: it can always be done, and
\* it ends with the report written, one IMAGE_STATUS per row and the number
\* of input rows as its total.
C14_MissingIsBroken ==
    /\ mpc = "collate" => ENABLED Collate
    /\ mpc = "done" =>
        /\ report.written
        /\ report.checked = Cardinality(DOMAIN cells)
        /\ DOMAIN status_map = {results[k][1] : k \in DOMAIN results}
        /\ DOMAIN report.statuses = DOMAIN cells
        /\ \A i \in DOMAIN cells :
            index[i] \notin DOMAIN status_map =>
                /\ report.statuses[i] = StrStatus("error: missing")
                /\ Cardinality({k \in DOMAIN report.rows : report.rows[k].row = i}) = 1
                /\ \A k \in DOMAIN report.rows :
                    report.rows[k].row = i =>
                        report.rows[k].status = StrStatus("error: missing")

\* Two rows labelled 7 and 9 were recorded with 200 and 404: neither label
\* has an entry in the result map, and the report has both rows, labelled
\* "error: missing".
C14_Witness ==
    /\ mpc = "done"
    /\ index = (0 :> 7) @@ (1 :> 9)
    /\ status_map = (0 :> IntStatus(200)) @@ (1 :> IntStatus(404))
    /\ Len(report.rows) = 2
    /\ report.rows[1].row = 0
    /\ report.rows[1].status = StrStatus("error: missing")
    /\ report.rows[2].row = 1
    /\ report.rows[2].status = StrStatus("error: missing")

-----------------------------------------------------------------------------
\* Properties of the shutdown of the pool.

PoolShutDown ==
    /\ queue = <<>>
    /\ \A w \in DOMAIN cur : cur[w] = NoFuture
AllTasksFinished ==
    /\ Cardinality(Futures) = Cardinality(Rows)
    /\ \A f \in Futures : Ended(f) /\ future[f].state = "FINISHED"

\* C15, in every state: main is past the with block, the result map is built
\* or the report is written only when every submitted task has finished and
\* the pool has shut down.
C15_State ==
    (mpc \in {"collate", "done"} \/ status_map # <<>> \/ report # NoReport) =>
        /\ AllTasksFinished
        /\ PoolShutDown
        /\ \A f \in Futures : ~Running(f)

\* C15, in every step: the result map and the report change only in a step
\* taken when every task has finished and the pool has shut down, and no
\* probe takes a step once main is past the with block.
C15_Step ==
    /\ (status_map' # status_map \/ report' # report) =>
        (AllTasksFinished /\ PoolShutDown)
    /\ mpc \in {"collate", "done"} => (probe' = probe /\ future' = future)

\* C15: classification, collation and report writing begin only after every
\* submitted task has finished and the worker pool has shut down.
C15_CollateAfterAllFinished == []C15_State /\ [][C15_Step]_vars

\* Two rows, one of whose probes went through a backoff, and the report is
\* written.
C15_Witness ==
    /\ mpc = "done"
    /\ report.written
    /\ Cardinality(Futures) = 2
    /\ \E f \in Futures : probe[f].slept # <<>>

-----------------------------------------------------------------------------
\* Properties of the retries.

IsErrorSentinel(s) == ~s.isint /\ s \notin {StrStatus("empty"), NoStatus}

\* C16, in every state: a probe that returned an ErrorSentinel is in its
\* third attempt (0-based 2), each attempt before it was followed by its
\* sleep, and the sentinel has the type name of the exception its last
\* request raised; a probe is in a backoff exactly when the last request of
\* an attempt k < 2 raised a transport exception; and a probe in attempt k
\* has slept exactly the k backoffs 0.5 * (j + 1) s of the attempts j < k.
C16_State ==
    \A f \in Futures :
        LET p == probe[f]
            t == p.trace
        IN /\ p.attempt \in 0 .. 2
           /\ Len(p.slept) = p.attempt
           /\ \A j \in DOMAIN p.slept : p.slept[j] = 500 * j
           /\ (p.pc = "returned" /\ IsErrorSentinel(future[f].result)) =>
                /\ p.attempt = 2
                /\ p.heads = 3
                /\ t # <<>>
                /\ IsTransport(Last(t))
                /\ future[f].result = StrStatus("error: " \o Last(t).exc)
           /\ p.pc = "sleep" <=>
                (t # <<>> /\ IsTransport(Last(t)) /\ p.attempt < 2)

\* C16, in every step: a probe starts a further attempt or sleeps only out of
\* the backoff that follows a transport exception, and the step it takes out
\* of the backoff of attempt k is the sleep of 0.5 * (k + 1) s followed by
\* attempt k + 1.
C16_Step ==
    \A f \in Futures :
        LET p == probe[f]
            q == probe'[f]
        IN /\ (q.attempt # p.attempt \/ q.slept # p.slept) =>
                /\ p.pc = "sleep"
                /\ IsTransport(Last(p.trace))
           /\ (p.pc = "sleep" /\ q # p) =>
                /\ q.slept = Append(p.slept, 500 * (p.attempt + 1))
                /\ q.attempt = p.attempt + 1
                /\ q.pc = "head"
                /\ q.trace = <<>>

\* C16: a probe returns an ErrorSentinel only when all 3 attempts ended in a
\* transport exception, with the type name of the last one; a transport
\* exception on attempt k < 2 is followed by a sleep of 0.5 * (k + 1) s and
\* another attempt; no retry or sleep happens without one.
C16_ErrorOnlyAfterRetries == []C16_State /\ [][C16_Step]_vars

\* A third attempt whose GET raised ConnectionError: the sentinel names it.
C16_Witness ==
    \E f \in Futures :
        /\ probe[f].pc = "returned"
        /\ probe[f].attempt = 2
        /\ probe[f].slept = <<500, 1000>>
        /\ Len(probe[f].trace) = 2
        /\ probe[f].trace[2].exc = "ConnectionError"
        /\ future[f].result = StrStatus("error: ConnectionError")

-----------------------------------------------------------------------------
\* Termination.

AllCaught == yielded = Futures /\ Cardinality(Futures) = Cardinality(Rows)

\* C17, in every state: when every submitted task has returned or has been
\* caught as a fault, main can leave the with block, with nothing else
\* required; and main is past it only then.
C17_State ==
    /\ (mpc = "collect" /\ AllCaught) => ENABLED ExitPool
    /\ (mpc = "collect" /\ ~AllCaught) => ~ENABLED ExitPool
    /\ Completed => (AllCaught /\ \A f \in Futures : Ended(f))

\* C17: with fair scheduling and requests that return or raise, every probe
\* eventually ends and, unless the column is absent, the dispatch completes
\* and the run ends, for every URL list and worker count of the model; the
\* dispatch is complete exactly when every submitted task has returned or
\* been caught.
C17_EventuallyComplete ==
    /\ []C17_State
    /\ (column_ok ~> (mpc = "done"))
    /\ \A f \in 1 .. MaxUrls :
        (f \in DOMAIN future) ~> (f \in DOMAIN future /\ Ended(f))

-----------------------------------------------------------------------------
\* Writes to the result store.

WorkerState == <<cur, probe, future, queue>>

\* C18, in every state: no index is recorded twice.
C18_State ==
    \A j, k \in DOMAIN results : j # k => results[j][1] # results[k][1]

\* C18, in every step: results changes only by one pair appended by the main
\* thread in its loop of line 53, under an index not recorded before, in a
\* step in which no worker thread does anything; the result map is built by
\* the main thread after that loop; and a step of a worker thread writes to
\* neither.
C18_Step ==
    /\ results' # results =>
        /\ mpc = "collect"
        /\ UNCHANGED WorkerState
        /\ Len(results') = Len(results) + 1
        /\ SubSeq(results', 1, Len(results)) = results
        /\ \A k \in DOMAIN results : results[k][1] # results'[Len(results')][1]
    /\ status_map' # status_map =>
        /\ mpc = "collate"
        /\ UNCHANGED WorkerState
    /\ WorkerState' # WorkerState =>
        (mpc = "submit" \/ (results' = results /\ status_map' = status_map))

\* C18: no two writes to the result store target the same index and the
\* store is never written by two threads: worker threads only return their
\* outcome, and every insertion is made by the dispatching thread.
C18_SingleWriter == []C18_State /\ [][C18_Step]_vars

\* The main thread has recorded one outcome while a worker thread is in the
\* middle of the probe of the other row.
C18_Witness ==
    /\ mpc = "collect"
    /\ Len(results) = 1
    /\ \E f \in Futures : probe[f].pc = "get" /\ f \notin yielded

-----------------------------------------------------------------------------
\* A fallback GET that fails.

GetFailed(p) ==
    /\ Len(p.trace) = 2
    /\ p.trace[1].method = "HEAD" /\ IsResponse(p.trace[1])
    /\ p.trace[2].method = "GET" /\ IsTransport(p.trace[2])
GetsIn(t) == Cardinality({k \in DOMAIN t : t[k].method = "GET"})
HeadsIn(t) == Cardinality({k \in DOMAIN t : t[k].method = "HEAD"})

\* C19, in every state: an attempt whose GET raised a transport exception
\* after an answered HEAD is a failed attempt: before the third it leads to
\* the backoff, in the third to the error sentinel of the GET's exception,
\* never to the HEAD status; an attempt has at most one HEAD and one GET,
\* there are at most 3 attempts, so at most 3 HEAD and 3 GET requests, and
\* at most 2 sleeps.
C19_State ==
    \A f \in Futures :
        LET p == probe[f]
        IN /\ GetFailed(p) =>
                /\ p.attempt < 2 => p.pc = "sleep"
                /\ p.attempt = 2 =>
                    /\ p.pc = "returned"
                    /\ future[f].result = StrStatus("error: " \o p.trace[2].exc)
                /\ future[f].result # IntStatus(p.trace[1].status)
           /\ HeadsIn(p.trace) <= 1
           /\ GetsIn(p.trace) <= 1
           /\ p.attempt <= 2
           /\ p.heads <= 3
           /\ p.heads = p.attempt + HeadsIn(p.trace)
           /\ Len(p.slept) <= 2

\* C19, in every step: the step out of the backoff after a failed GET uses up
\* the attempt and drops the requests of it, and the next request of the
\* probe is a HEAD.
C19_Step ==
    \A f \in Futures :
        LET p == probe[f]
            q == probe'[f]
        IN /\ (GetFailed(p) /\ q # p) =>
                /\ q.attempt = p.attempt + 1
                /\ q.trace = <<>>
                /\ q.pc = "head"
                /\ q.heads = p.heads
           /\ (p.trace = <<>> /\ q.trace # <<>>) =>
                /\ Len(q.trace) = 1
                /\ q.trace[1].method = "HEAD"
                /\ q.heads = p.heads + 1

\* C19: a transport exception raised by the fallback GET counts as a failed
\* attempt like a failed HEAD: it uses up one of the 3 attempts, the HEAD
\* status is discarded and the next attempt starts with a HEAD; so a probe
\* issues at most 3 HEAD and 3 GET requests and sleeps at most twice.
C19_FailedGetIsFailedAttempt == []C19_State /\ [][C19_Step]_vars

\* The GET of the third attempt raised Timeout after its HEAD was answered
\* 500: three HEADs, two sleeps, and the probe returned the error sentinel.
C19_Witness ==
    \E f \in Futures :
        /\ GetFailed(probe[f])
        /\ probe[f].trace[1].status = 500
        /\ probe[f].trace[2].exc = "Timeout"
        /\ probe[f].pc = "returned"
        /\ probe[f].attempt = 2
        /\ probe[f].heads = 3
        /\ probe[f].slept = <<500, 1000>>
        /\ future[f].result = StrStatus("error: Timeout")

-----------------------------------------------------------------------------
\* Faults that are not transport exceptions.

IsFault(e) == e.kind = "fault"
FaultSentinels == {StrStatus("error: " \o name) : name \in Faults}

\* C20, in every state: a probe whose last request raised a fault has left
\* check_one with that fault, on whichever attempt, with no backoff after it
\* (as many sleeps as attempts before it) and its future holds the fault;
\* once yielded, its index is recorded once, with the ErrorSentinel of the
\* fault's type name; and an index recorded with such a sentinel is one
\* whose probe raised.
C20_State ==
    /\ \A f \in Futures :
        LET p == probe[f]
        IN /\ (p.trace # <<>> /\ IsFault(Last(p.trace))) =>
                /\ p.pc = "raised"
                /\ Len(p.slept) = p.attempt
                /\ p.heads = p.attempt + 1
                /\ future[f].state = "FINISHED"
                /\ future[f].exception = Last(p.trace).exc
           /\ p.pc = "raised" => (p.trace # <<>> /\ IsFault(Last(p.trace)))
           /\ (p.pc = "raised" /\ f \in yielded) =>
                /\ Cardinality(Collected(p.task)) = 1
                /\ \A k \in Collected(p.task) :
                    results[k][2] = StrStatus("error: " \o Last(p.trace).exc)
    /\ \A k \in DOMAIN results :
        results[k][2] \in FaultSentinels =>
            \E f \in Futures : probe[f].task = results[k][1] /\ probe[f].pc = "raised"

\* C20, in every step: a probe that has raised issues no request, makes no
\* attempt and does not sleep.
C20_Step ==
    \A f \in Futures :
        probe[f].pc = "raised" => (probe'[f] = probe[f] /\ future'[f] = future[f])

\* C20: a non-transport fault raised inside an attempt is not retried: it
\* leaves the probe at once, on whichever attempt, with no backoff and no
\* further request, and the dispatcher records it as the ErrorSentinel of
\* the fault's type name, for that index only.
C20_FaultNotRetried == []C20_State /\ [][C20_Step]_vars

====
